---- MODULE Spec2Model ----
(***************************************************************************)
(* Model of the chat screenshot generator:                                 *)
(*   chat_parser.py     parse_conversations (transcript segmentation)      *)
(*   chat_simulator.py  measure_text, wrap_text, generate_chat_image       *)
(* A string is a sequence of one-character strings, so that strip(),       *)
(* split(), startswith() and slicing are computed as Python computes them. *)
(***************************************************************************)
EXTENDS Integers, Sequences, FiniteSets, TLC

VARIABLES
    \* parse_conversations
    f_lines,               \* lines the "for line in f" iterator has yielded so far
    conversations,
    current_conversation,
    ppc,                   \* "idle", "loop" (inside the with/for), "done" (returned)
    \* wrap_text, called on its own
    w_text, w_font, w_max_width,
    w_lines,               \* the list wrap_text returned
    wpc,                   \* "idle", "call", "done"
    \* generate_chat_image
    arg_messages,          \* the messages argument: <<"None">> or <<"list", turns>>
    cfg,                   \* the other keyword arguments
    messages,
    font_bubble, font_time,
    time_text,
    current_y,
    bottom_bubble_box, top_bubble_box,   \* <<>> stands for None
    i,                     \* index of the next turn of reversed_messages
    bubbles,               \* draw_chat_bubble calls so far, with the turn's locals
    text_draws,            \* draw.text calls for the wrapped lines so far
    labels,                \* draw.text calls for the annotations
    saved,                 \* img.save has run
    lpc                    \* "idle", "start", "loop", "save", "done"

parse_vars == <<f_lines, conversations, current_conversation, ppc>>
wrap_vars == <<w_text, w_font, w_max_width, w_lines, wpc>>

layout_vars == <<arg_messages, cfg, messages, font_bubble, font_time, time_text,
                 current_y, bottom_bubble_box, top_bubble_box, i, bubbles,
                 text_draws, labels, saved, lpc>>

vars == <<parse_vars, wrap_vars, layout_vars>>

\* ------------------------------------------------------------------ bounds

\* Longest transcript (in lines) the segmenter is run on.
MaxLines == 4

\* Longest text (in characters) wrap_text is called on by itself.
MaxTextLen == 6

\* Longest conversation (in turns) generate_chat_image is given.
MaxTurns == 3

\* ----------------------------------------------------------- str helpers

\* Characters str.strip() and str.split() treat as whitespace.
IsSpace(c) == c \in {" ", "\n", "\t"}

RECURSIVE lstrip(_)
lstrip(s) ==
    IF s = <<>> THEN s
    ELSE IF IsSpace(Head(s)) THEN lstrip(Tail(s)) ELSE s

RECURSIVE rstrip(_)
rstrip(s) ==
    IF s = <<>> THEN s
    ELSE IF IsSpace(s[Len(s)]) THEN rstrip(SubSeq(s, 1, Len(s) - 1)) ELSE s

\* str.strip()
strip(s) == rstrip(lstrip(s))

\* str.startswith(prefix)
startswith(s, prefix) ==
    /\ Len(s) >= Len(prefix)
    /\ SubSeq(s, 1, Len(prefix)) = prefix

\* s[n:]
SliceFrom(s, n) == SubSeq(s, n + 1, Len(s))

\* ------------------------------------------------- parse_conversations

PrefixA == <<"A", ":", " ">>
PrefixB == <<"B", ":", " ">>

\* The transcript lines the model feeds the segmenter, each with the line
\* terminator the file iterator leaves on it.
Lines ==
    { <<"A", ":", " ", "h", "i", "\n">>,                      \* "A: hi"
      <<"B", ":", " ", "y", "o", "\n">>,                      \* "B: yo"
      <<"\n">>,                                               \* blank line
      <<"A", ":", " ", "b", "y", "e", "\n">>,                 \* "A: bye"
      <<"A", ":", " ", "\n">>,                                \* "A: " and no text
      <<" ", " ", "B", ":", " ", " ", "y", "o", " ", "\n">>,  \* "  B:  yo "
      <<"A", ":", "h", "i", "\n">>,                           \* "A:hi"
      <<"n", "o", "t", "e", "\n">> }                          \* "note"

\* The branch of the if/elif/else the loop body takes for stripped.
LineBranch(stripped) ==
    IF startswith(stripped, PrefixA) THEN "sender"
    ELSE IF startswith(stripped, PrefixB) THEN "receiver"
    ELSE "delimiter"

\* One iteration of "for line in f".
ParseLine(line) ==
    LET stripped == strip(line)
        role == LineBranch(stripped)
        text == strip(SliceFrom(stripped, 3))
    IN  IF role # "delimiter"
        THEN /\ current_conversation' = Append(current_conversation, <<role, text>>)
             /\ UNCHANGED conversations
        ELSE IF current_conversation # <<>>
        THEN /\ conversations' = Append(conversations, current_conversation)
             /\ current_conversation' = <<>>
        ELSE UNCHANGED <<conversations, current_conversation>>

ReadLine ==
    /\ ppc = "loop"
    /\ Len(f_lines) < MaxLines
    /\ \E line \in Lines :
          /\ f_lines' = Append(f_lines, line)
          /\ ParseLine(line)
    /\ UNCHANGED ppc
    /\ UNCHANGED <<wrap_vars, layout_vars>>

\* Mutant of EndOfFile: the conversation pending at end of input is dropped.
EndOfFile_DropPending ==
    /\ ppc = "loop"
    /\ ppc' = "done"
    /\ UNCHANGED <<f_lines, conversations, current_conversation>>
    /\ UNCHANGED <<wrap_vars, layout_vars>>

\* End of input: the pending conversation is appended and the list returned.
EndOfFile ==
    /\ ppc = "loop"
    /\ conversations' = IF current_conversation # <<>>
                        THEN Append(conversations, current_conversation)
                        ELSE conversations
    /\ ppc' = "done"
    /\ UNCHANGED <<f_lines, current_conversation>>
    /\ UNCHANGED <<wrap_vars, layout_vars>>

IdleParse ==
    /\ f_lines = <<>>
    /\ conversations = <<>>
    /\ current_conversation = <<>>
    /\ ppc = "idle"

\* ------------------------------------------------------------ fonts

\* The built-in bitmap font load_ios_fonts falls back to.
DefaultFont == [family |-> "default", size |-> 10]

TrueType(size) == [family |-> "truetype", size |-> size]

\* load_ios_fonts: the pairs (bubble_font, time_font) it can return,
\* depending on which font files exist: a TrueType face at the two sizes,
\* or the default font for both.
load_ios_fonts(font_size, time_size) ==
    { <<TrueType(font_size), TrueType(time_size)>>, <<DefaultFont, DefaultFont>> }

\* Glyph classes of the TrueType face: punctuation on the baseline,
\* lower-case letters of x-height; every other glyph is cap-height.
DotGlyphs == {".", ","}
ShortGlyphs == {"a", "c", "e", "m", "n", "o", "r", "s", "u", "w", "x", ":"}
NarrowGlyphs == {".", ",", ":", "!", "i", "j", "l", "t", "f"}

\* Horizontal advance of one character.
GlyphWidth(font, c) ==
    IF font.family = "default" THEN 6
    ELSE IF IsSpace(c) \/ c \in NarrowGlyphs THEN font.size \div 4
    ELSE (font.size * 3) \div 5

\* Height of the ink of one character (the default font is a fixed cell).
GlyphHeight(font, c) ==
    IF font.family = "default" THEN 11
    ELSE IF IsSpace(c) THEN 0
    ELSE IF c \in DotGlyphs THEN font.size \div 8
    ELSE IF c \in ShortGlyphs THEN font.size \div 2
    ELSE (font.size * 7) \div 10

\* Sum of advance * count over a set of <<advance, count>> pairs.
RECURSIVE SumPairs(_)
SumPairs(S) ==
    IF S = {} THEN 0
    ELSE LET v == CHOOSE u \in S : TRUE IN v[1] * v[2] + SumPairs(S \ {v})

\* Sum of the advances of the characters of text, taken advance by advance.
TextWidth(text, font) ==
    SumPairs({ <<w, Cardinality({k \in DOMAIN text : GlyphWidth(font, text[k]) = w})>> :
                 w \in {GlyphWidth(font, text[k]) : k \in DOMAIN text} })

Max(a, b) == IF a >= b THEN a ELSE b

\* Height of the tallest character of text (0 for the empty string).
TextHeight(text, font) ==
    LET hs == {GlyphHeight(font, text[k]) : k \in DOMAIN text}
    IN  IF hs = {} THEN 0 ELSE CHOOSE h \in hs : \A g \in hs : h >= g

\* measure_text: (width, height) of the bounding box textbbox() reports.
measure_text(text, font) == <<TextWidth(text, font), TextHeight(text, font)>>

\* ------------------------------------------------------------ wrap_text

\* Length of the leading run of non-whitespace characters of s.
RECURSIVE WordLen(_)
WordLen(s) ==
    IF s = <<>> \/ IsSpace(Head(s)) THEN 0 ELSE 1 + WordLen(Tail(s))

\* str.split(): the maximal runs of non-whitespace characters, in order.
RECURSIVE split(_)
split(s) ==
    LET t == lstrip(s)
        n == WordLen(t)
    IN  IF t = <<>> THEN <<>>
        ELSE <<SubSeq(t, 1, n)>> \o split(SliceFrom(t, n))

\* Mutant of Fits: the line is measured without the word being added.
Fits_MeasuresCurrentLine(current_line, test_line, font, max_width) ==
    measure_text(current_line, font)[1] <= max_width

\* The test "w <= max_width" on the candidate line.
Fits(current_line, test_line, font, max_width) ==
    measure_text(test_line, font)[1] <= max_width

\* The loop over words, then the final append of a non-empty current_line.
RECURSIVE WrapLoop(_, _, _, _, _)
WrapLoop(words, lines, current_line, font, max_width) ==
    IF words = <<>>
    THEN IF current_line # <<>> THEN Append(lines, current_line) ELSE lines
    ELSE LET word == Head(words)
             test_line == current_line
                            \o (IF current_line # <<>> THEN <<" ">> ELSE <<>>)
                            \o word
         IN  IF Fits(current_line, test_line, font, max_width)
             THEN WrapLoop(Tail(words), lines, test_line, font, max_width)
             ELSE WrapLoop(Tail(words),
                           IF current_line # <<>> THEN Append(lines, current_line)
                                                  ELSE lines,
                           word, font, max_width)

wrap_text(text, font, max_width) ==
    WrapLoop(split(text), <<>>, <<>>, font, max_width)

\* The inputs wrap_text is called on by itself: every text of at most
\* MaxTextLen characters over a blank, a wide tall glyph and a narrow dot.
WrapChars == {" ", "T", "."}
WrapTexts == UNION { [1..n -> WrapChars] : n \in 0..MaxTextLen }
WrapFonts == { TrueType(40), DefaultFont }
WrapWidths == { -64, 1, 34, 70 }

CallWrapText ==
    /\ wpc = "call"
    /\ w_lines' = wrap_text(w_text, w_font, w_max_width)
    /\ wpc' = "done"
    /\ UNCHANGED <<w_text, w_font, w_max_width>>
    /\ UNCHANGED <<parse_vars, layout_vars>>

IdleWrap ==
    /\ w_text = <<>>
    /\ w_font = DefaultFont
    /\ w_max_width = 0
    /\ w_lines = <<>>
    /\ wpc = "idle"

\* -------------------------------------------------- generate_chat_image

bubble_padding == 32
line_spacing == 8
\* bubble_max_fraction = 0.65, as a percentage
bubble_max_percent == 65
\* the "Seen just now" label is drawn this far below the newest bubble
seen_offset == 10
\* the timestamp is drawn this far (plus its height) above the oldest bubble
time_offset == 50

SeenText == <<"S", "e", "e", "n", " ", "j", "u", "s", "t", " ", "n", "o", "w">>
ProbeText == <<"T", "e", "s", "t">>

\* The messages used when the argument is None.
DefaultMessages ==
    << <<"sender", <<"H", "e", "l", "l", "o", "!">> >>,
       <<"receiver",
        <<"J", "u", "s", "t", " ", "l", "e", "t", "t", "i", "n", "g", " ",
          "y", "o", "u", " ", "k", "n", "o", "w", " ", "t", "h", "e", " ",
          "c", "o", "d", "e", "s", " ", "a", "r", "e", " ", "w", "o", "r",
          "k", "i", "n", "g", " ", "f", "i", "n", "e", ".">> >>,
       <<"receiver",
        <<"T", "h", "i", "s", " ", "m", "e", "s", "s", "a", "g", "e", " ",
          "i", "s", " ", "i", "n", "t", "e", "n", "t", "i", "o", "n", "a",
          "l", "l", "y", " ", "l", "o", "n", "g", "e", "r", ",", " ", "e",
          "n", "s", "u", "r", "i", "n", "g", " ", "m", "u", "l", "t", "i",
          "p", "l", "e", " ", "l", "i", "n", "e", "s", " ", "f", "o", "r",
          " ", "a", " ", "n", "i", "c", "e", " ", "d", "e", "m", "o", "n",
          "s", "t", "r", "a", "t", "i", "o", "n", " ", "o", "f", " ", "w",
          "r", "a", "p", "p", "i", "n", "g", ".">> >> >>

\* The turn texts the model passes in: empty, blank, one word, and five
\* words of which the first is tall and the others are dots.
Texts ==
    { <<>>,
      <<" ">>,
      <<"H", "i">>,
      <<"T", " ", ".", " ", ".", " ", ".", " ", ".">> }

Roles == {"sender", "receiver"}
Turns == Roles \X Texts

MessageArgs ==
    { <<"None">> } \cup
    { <<"list", m>> : m \in UNION { [1..n -> Turns] : n \in 0..MaxTurns } }

\* Keyword arguments: the call in chat_parser.main, the sample call of the
\* module's own __main__, and a narrow canvas on which every word wraps.
Configs ==
    { [image_size |-> <<1290, 1290>>, bubble_font_size |-> 40, time_font_size |-> 34,
       bottom_padding |-> 280, left_margin |-> 190, right_margin |-> 40,
       bubble_margin |-> 22, same_person_margin |-> 2],
      [image_size |-> <<1290, 1290>>, bubble_font_size |-> 40, time_font_size |-> 34,
       bottom_padding |-> 280, left_margin |-> 190, right_margin |-> 40,
       bubble_margin |-> 30, same_person_margin |-> 10],
      [image_size |-> <<100, 600>>, bubble_font_size |-> 36, time_font_size |-> 28,
       bottom_padding |-> 65, left_margin |-> 8, right_margin |-> 8,
       bubble_margin |-> 22, same_person_margin |-> 0] }

\* Values random.randint(0, 23) and random.randint(0, 59) are sampled at.
RandHours == {0, 23}
RandMinutes == {0, 59}

DigitChar(d) == <<"0", "1", "2", "3", "4", "5", "6", "7", "8", "9">>[d + 1]

\* f"{n:02d}" for 0 <= n <= 99
Format02d(n) == <<DigitChar(n \div 10), DigitChar(n % 10)>>

generate_random_timestamp(rand_hour, rand_minute) ==
    Format02d(rand_hour) \o <<":">> \o Format02d(rand_minute)

img_width == cfg.image_size[1]
img_height == cfg.image_size[2]

\* int((img_width * 0.65) - (2 * bubble_padding)); the canvas widths used
\* are ones on which the float product truncates to the exact quotient.
bubble_max_text_width ==
    (img_width * bubble_max_percent) \div 100 - 2 * bubble_padding

\* list(reversed(messages))
reversed_messages == [k \in 1..Len(messages) |-> messages[Len(messages) + 1 - k]]

RECURSIVE SumSeq(_)
SumSeq(q) == IF q = <<>> THEN 0 ELSE Head(q) + SumSeq(Tail(q))

RECURSIVE MaxSeq(_)
MaxSeq(q) == IF Len(q) = 1 THEN q[1] ELSE Max(Head(q), MaxSeq(Tail(q)))

\* Lines 148-179: default messages, canvas, fonts, timestamp, cursor.
Setup ==
    /\ lpc = "start"
    /\ messages' = IF arg_messages[1] = "None" THEN DefaultMessages ELSE arg_messages[2]
    /\ \E fonts \in load_ios_fonts(cfg.bubble_font_size, cfg.time_font_size) :
          /\ font_bubble' = fonts[1]
          /\ font_time' = fonts[2]
    /\ \E rand_hour \in RandHours, rand_minute \in RandMinutes :
          time_text' = generate_random_timestamp(rand_hour, rand_minute)
    /\ current_y' = img_height - cfg.bottom_padding
    /\ bottom_bubble_box' = <<>>
    /\ top_bubble_box' = <<>>
    /\ i' = 0
    /\ lpc' = "loop"
    /\ UNCHANGED <<arg_messages, cfg, bubbles, text_draws, labels, saved>>
    /\ UNCHANGED <<parse_vars, wrap_vars>>

\* Height of the text block of the wrapped lines (0 when there are none).
TextBlockHeight(line_heights) ==
    IF line_heights # <<>>
    THEN SumSeq(line_heights) + line_spacing * (Len(line_heights) - 1)
    ELSE 0

\* Width of the text block of the wrapped lines (0 when there are none).
TextBlockWidth(line_widths) ==
    IF line_widths # <<>> THEN MaxSeq(line_widths) ELSE 0

\* line_height: the first line's height, or the probe's for empty text.
LineHeight(line_heights) ==
    IF line_heights # <<>> THEN line_heights[1]
    ELSE measure_text(ProbeText, font_bubble)[2]

\* Mutant of BubbleBox: the receiver's bubble starts at the right anchor
\* instead of ending there.
BubbleBox_ReceiverStartsAtAnchor(role, bubble_width, bubble_height) ==
    LET bubble_bottom == current_y
        bubble_top == bubble_bottom - bubble_height
    IN  IF role = "sender"
        THEN <<cfg.left_margin, bubble_top, cfg.left_margin + bubble_width, bubble_bottom>>
        ELSE <<img_width - cfg.right_margin, bubble_top,
               (img_width - cfg.right_margin) + bubble_width, bubble_bottom>>

\* Mutant of BubbleBox: the bubble hangs below the cursor instead of
\* standing on it.
BubbleBox_BelowCursor(role, bubble_width, bubble_height) ==
    LET bubble_top == current_y
        bubble_bottom == bubble_top + bubble_height
    IN  IF role = "sender"
        THEN <<cfg.left_margin, bubble_top, cfg.left_margin + bubble_width, bubble_bottom>>
        ELSE <<(img_width - cfg.right_margin) - bubble_width, bubble_top,
               img_width - cfg.right_margin, bubble_bottom>>

\* (bubble_left, bubble_top, bubble_right, bubble_bottom) of a turn.
BubbleBox(role, bubble_width, bubble_height) ==
    LET bubble_bottom == current_y
        bubble_top == bubble_bottom - bubble_height
    IN  IF role = "sender"
        THEN <<cfg.left_margin, bubble_top, cfg.left_margin + bubble_width, bubble_bottom>>
        ELSE <<(img_width - cfg.right_margin) - bubble_width, bubble_top,
               img_width - cfg.right_margin, bubble_bottom>>

\* text_y when line idx (from 0) is drawn: bubble_padding / 2 below the top,
\* advanced by line_height + line_spacing for each earlier line.
TextY(bubble_top, line_height, idx) ==
    bubble_top + (bubble_padding \div 2) + idx * (line_height + line_spacing)

\* Mutant of NextCursorY: the same-speaker gap is never used.
NextCursorY_AlwaysBubbleMargin(bubble_top, role) ==
    bubble_top - cfg.bubble_margin

\* current_y for the next (older) bubble.
NextCursorY(bubble_top, role) ==
    IF i < Len(reversed_messages) - 1
    THEN IF reversed_messages[i + 2][1] = role
         THEN bubble_top - cfg.same_person_margin
         ELSE bubble_top - cfg.bubble_margin
    ELSE bubble_top - cfg.bubble_margin

\* The effects of one iteration, given the turn's wrapped lines, their
\* measures and the bubble's box.
DrawBubble(role, text, lines, line_heights, line_height, box) ==
    /\ bubbles' = Append(bubbles, [box |-> box, role |-> role, text |-> text,
                                   lines |-> lines, line_height |-> line_height])
    /\ text_draws' = text_draws \o
          [k \in 1..Len(lines) |->
              [bubble |-> i + 1, line |-> lines[k],
               x |-> box[1] + bubble_padding,
               y |-> TextY(box[2], line_height, k - 1),
               h |-> line_heights[k]]]
    /\ bottom_bubble_box' = IF i = 0 THEN box ELSE bottom_bubble_box
    /\ top_bubble_box' = IF i = Len(reversed_messages) - 1 THEN box
                         ELSE top_bubble_box
    /\ current_y' = NextCursorY(box[2], role)

\* One iteration of the loop over reversed_messages (lines 181-257).
PlaceBubble ==
    /\ lpc = "loop"
    /\ i < Len(reversed_messages)
    /\ \E turn \in {reversed_messages[i + 1]} :
       \E lines \in {wrap_text(turn[2], font_bubble, bubble_max_text_width)} :
       \E line_widths \in {[k \in 1..Len(lines) |-> measure_text(lines[k], font_bubble)[1]]} :
       \E line_heights \in {[k \in 1..Len(lines) |-> measure_text(lines[k], font_bubble)[2]]} :
       \E box \in {BubbleBox(turn[1],
                             TextBlockWidth(line_widths) + 2 * bubble_padding,
                             TextBlockHeight(line_heights) + 2 * bubble_padding)} :
          DrawBubble(turn[1], turn[2], lines, line_heights, LineHeight(line_heights), box)
    /\ i' = i + 1
    /\ UNCHANGED <<arg_messages, cfg, messages, font_bubble, font_time, time_text,
                   labels, saved, lpc>>
    /\ UNCHANGED <<parse_vars, wrap_vars>>

\* Mutant of ShowSeen: the oldest turn's role is tested, not the newest's.
ShowSeen_OldestRole ==
    IF bottom_bubble_box # <<>>
    THEN messages[1][1] = "receiver"
    ELSE FALSE

\* Whether the "Seen just now" label is drawn (lines 260-262).
ShowSeen ==
    IF bottom_bubble_box # <<>>
    THEN messages[Len(messages)][1] = "receiver"
    ELSE FALSE

\* The draw.text call of the "Seen just now" label (lines 263-268).
SeenLabel ==
    LET seen_width == measure_text(SeenText, font_time)[1]
    IN  [kind |-> "seen",
         x |-> bottom_bubble_box[3] - seen_width,
         y |-> bottom_bubble_box[4] + seen_offset,
         w |-> seen_width,
         h |-> measure_text(SeenText, font_time)[2]]

\* The draw.text call of the timestamp (lines 272-276).
TimeLabel ==
    LET time_width == measure_text(time_text, font_time)[1]
        time_height == measure_text(time_text, font_time)[2]
    IN  [kind |-> "time",
         x |-> (img_width \div 2) - (time_width \div 2),
         y |-> top_bubble_box[2] - time_height - time_offset,
         w |-> time_width,
         h |-> time_height]

\* After the loop: the two annotations (lines 259-276).
Annotate ==
    /\ lpc = "loop"
    /\ i = Len(reversed_messages)
    /\ labels' = labels
                   \o (IF ShowSeen THEN <<SeenLabel>> ELSE <<>>)
                   \o (IF top_bubble_box # <<>> THEN <<TimeLabel>> ELSE <<>>)
    /\ lpc' = "save"
    /\ UNCHANGED <<arg_messages, cfg, messages, font_bubble, font_time, time_text,
                   current_y, bottom_bubble_box, top_bubble_box, i, bubbles,
                   text_draws, saved>>
    /\ UNCHANGED <<parse_vars, wrap_vars>>

\* img.save(output_file) (lines 278-280).
Save ==
    /\ lpc = "save"
    /\ saved' = TRUE
    /\ lpc' = "done"
    /\ UNCHANGED <<arg_messages, cfg, messages, font_bubble, font_time, time_text,
                   current_y, bottom_bubble_box, top_bubble_box, i, bubbles,
                   text_draws, labels>>
    /\ UNCHANGED <<parse_vars, wrap_vars>>

IdleLayout ==
    /\ arg_messages = <<"None">>
    /\ cfg = [image_size |-> <<0, 0>>]
    /\ messages = <<>>
    /\ font_bubble = DefaultFont
    /\ font_time = DefaultFont
    /\ time_text = <<>>
    /\ current_y = 0
    /\ bottom_bubble_box = <<>>
    /\ top_bubble_box = <<>>
    /\ i = 0
    /\ bubbles = <<>>
    /\ text_draws = <<>>
    /\ labels = <<>>
    /\ saved = FALSE
    /\ lpc = "idle"

\* -------------------------------------------------------- specifications

InitParse ==
    /\ f_lines = <<>>
    /\ conversations = <<>>
    /\ current_conversation = <<>>
    /\ ppc = "loop"
    /\ IdleWrap
    /\ IdleLayout

NextParse == ReadLine \/ EndOfFile

SpecParse == InitParse /\ [][NextParse]_vars

InitWrap ==
    /\ IdleParse
    /\ w_text \in WrapTexts
    /\ w_font \in WrapFonts
    /\ w_max_width \in WrapWidths
    /\ w_lines = <<>>
    /\ wpc = "call"
    /\ IdleLayout

NextWrap == CallWrapText

SpecWrap == InitWrap /\ [][NextWrap]_vars

InitLayout ==
    /\ IdleParse
    /\ IdleWrap
    /\ arg_messages \in MessageArgs
    /\ cfg \in Configs
    /\ messages = <<>>
    /\ font_bubble = DefaultFont
    /\ font_time = DefaultFont
    /\ time_text = <<>>
    /\ current_y = 0
    /\ bottom_bubble_box = <<>>
    /\ top_bubble_box = <<>>
    /\ i = 0
    /\ bubbles = <<>>
    /\ text_draws = <<>>
    /\ labels = <<>>
    /\ saved = FALSE
    /\ lpc = "start"

NextLayout == Setup \/ PlaceBubble \/ Annotate \/ Save

SpecLayout == InitLayout /\ [][NextLayout]_vars

\* ------------------------------------------------------- segmenter claims

\* A line on which the loop body appends a turn.
IsTurnLine(line) == LineBranch(strip(line)) # "delimiter"

\* The turn such a line contributes.
TurnOf(line) ==
    LET stripped == strip(line)
    IN  <<LineBranch(stripped), strip(SliceFrom(stripped, 3))>>

RECURSIVE Flatten(_)
Flatten(convs) ==
    IF convs = <<>> THEN <<>> ELSE Head(convs) \o Flatten(Tail(convs))

RECURSIVE TurnsOfLines(_)
TurnsOfLines(ls) ==
    IF ls = <<>> THEN <<>>
    ELSE IF IsTurnLine(Head(ls))
         THEN <<TurnOf(Head(ls))>> \o TurnsOfLines(Tail(ls))
         ELSE TurnsOfLines(Tail(ls))

\* Number of turn lines among the first p lines read.
TurnRank(p) == Cardinality({ r \in 1..p : IsTurnLine(f_lines[r]) })

\* Number of turns in the first j returned conversations.
RECURSIVE TurnsBefore(_)
TurnsBefore(j) == IF j = 0 THEN 0 ELSE TurnsBefore(j - 1) + Len(conversations[j])

\* Index of the returned conversation that holds the k-th turn.
ConvOfTurn(k) ==
    CHOOSE j \in 1..Len(conversations) : TurnsBefore(j - 1) < k /\ k <= TurnsBefore(j)

\* C1: when parse_conversations returns, no returned conversation is empty,
\* the concatenation of the returned conversations is the sequence of turn
\* lines in input order, two turns share a conversation iff no delimiter
\* line lies between them, and a run open at end of input is emitted.  A
\* turn line is a line on which the loop appends a turn, every other line is
\* a delimiter; which lines those are is the subject of C2.
C1_Segmentation ==
    ppc = "done" =>
        /\ \A j \in 1..Len(conversations) : conversations[j] # <<>>
        /\ Flatten(conversations) = TurnsOfLines(f_lines)
        /\ \A p, q \in 1..Len(f_lines) :
              (p < q /\ IsTurnLine(f_lines[p]) /\ IsTurnLine(f_lines[q])) =>
                 ( (ConvOfTurn(TurnRank(p)) = ConvOfTurn(TurnRank(q)))
                   <=> (\A r \in p..q : IsTurnLine(f_lines[r])) )

\* The transcript "A: hi", "B: yo", "", "A: bye" has been segmented into a
\* two-turn conversation and a conversation left open at end of input.
C1_Witness ==
    /\ ppc = "done"
    /\ Len(f_lines) = 4
    /\ conversations =
          << << <<"sender", <<"h", "i">> >>, <<"receiver", <<"y", "o">> >> >>,
             << <<"sender", <<"b", "y", "e">> >> >> >>

\* C2 (one step): every line read is classified by the prefix of the line itself: a
\* line beginning with "A: " appends a speaker-A turn whose text is the rest
\* of the line trimmed, a line beginning with "B: " a speaker-B turn, and
\* every other line appends no turn and closes the conversation in progress.
C2_PrefixStep ==
    (ppc = "loop" /\ Len(f_lines') = Len(f_lines) + 1) =>
        LET line == f_lines'[Len(f_lines')]
            rest == strip(SliceFrom(line, 3))
        IN  IF startswith(line, PrefixA)
            THEN /\ current_conversation' = Append(current_conversation, <<"sender", rest>>)
                 /\ conversations' = conversations
            ELSE IF startswith(line, PrefixB)
            THEN /\ current_conversation' = Append(current_conversation, <<"receiver", rest>>)
                 /\ conversations' = conversations
            ELSE /\ current_conversation' = <<>>
                 /\ conversations' = IF current_conversation # <<>>
                                      THEN Append(conversations, current_conversation)
                                      ELSE conversations

\* C2: parse_conversations classifies every input line by the prefix of the
\* line: "A: " adds a speaker-A turn, "B: " a speaker-B turn, any other line
\* adds no turn and closes the conversation in progress.
C2_PrefixClassification == [][C2_PrefixStep]_vars

\* ---------------------------------------------------------- wrap claims

\* C5: every line wrap_text returns measures at most max_width unless it
\* consists of exactly one word, no returned line is empty, and the words of
\* the returned lines, in order, are the whitespace-separated words of the
\* input in order.
C5_WrapNoOverflow ==
    wpc = "done" =>
        /\ \A k \in 1..Len(w_lines) :
              /\ w_lines[k] # <<>>
              /\ split(w_lines[k]) # <<>>
              /\ \/ measure_text(w_lines[k], w_font)[1] <= w_max_width
                 \/ Len(split(w_lines[k])) = 1
        /\ Flatten([k \in 1..Len(w_lines) |-> split(w_lines[k])]) = split(w_text)

\* wrap_text has returned a line of two words that fits and a line holding a
\* single word wider than max_width.
C5_Witness ==
    /\ wpc = "done"
    /\ \E k \in 1..Len(w_lines) :
          Len(split(w_lines[k])) = 2 /\ measure_text(w_lines[k], w_font)[1] <= w_max_width
    /\ \E k \in 1..Len(w_lines) :
          Len(split(w_lines[k])) = 1 /\ measure_text(w_lines[k], w_font)[1] > w_max_width

\* -------------------------------------------------------- layout claims

\* The bottom anchor: canvas height - bottom_padding.
Anchor == img_height - cfg.bottom_padding

LabelsOf(kind) == { k \in 1..Len(labels) : labels[k].kind = kind }

\* C3: for every two bubbles placed consecutively (the newer first), the
\* older one's bottom is at or above the newer one's top, and the distance
\* between them is same_person_margin when the two turns have the same
\* speaker and bubble_margin when they differ.
C3_VerticalOrdering ==
    \A k \in 2..Len(bubbles) :
        LET newer == bubbles[k - 1]
            older == bubbles[k]
        IN  /\ older.box[4] <= newer.box[2]
            /\ newer.box[2] - older.box[4] =
                  IF older.role = newer.role THEN cfg.same_person_margin
                                             ELSE cfg.bubble_margin

\* The turns (A, A, B) have been laid out with two different gap settings.
C3_Witness ==
    /\ lpc = "done"
    /\ Len(messages) = 3
    /\ <<messages[1][1], messages[2][1], messages[3][1]>> = <<"sender", "sender", "receiver">>
    /\ Len(bubbles) = 3
    /\ cfg.same_person_margin # cfg.bubble_margin

\* C4: every bubble box has right > left and bottom > top; every speaker-A
\* box has left = left_margin and every speaker-B box has
\* right = canvas width - right_margin, empty texts included.
C4_HorizontalAnchoring ==
    \A k \in 1..Len(bubbles) :
        LET box == bubbles[k].box
        IN  /\ box[3] > box[1]
            /\ box[4] > box[2]
            /\ bubbles[k].role = "sender" => box[1] = cfg.left_margin
            /\ bubbles[k].role = "receiver" => box[3] = img_width - cfg.right_margin

\* A speaker-A bubble of an empty text and a speaker-B bubble of a wrapped
\* text have both been placed.
C4_Witness ==
    /\ \E k \in 1..Len(bubbles) : bubbles[k].role = "sender" /\ bubbles[k].text = <<>>
    /\ \E k \in 1..Len(bubbles) : bubbles[k].role = "receiver" /\ Len(bubbles[k].lines) > 1

\* C6: for a non-empty conversation, the "Seen just now" label is drawn iff
\* the chronologically last turn's speaker is B, and the timestamp is drawn
\* exactly once, with its bottom edge at or above the top of the oldest
\* bubble's box.
C6_Annotations ==
    (lpc \in {"save", "done"} /\ messages # <<>>) =>
        /\ (LabelsOf("seen") # {}) <=> (messages[Len(messages)][1] = "receiver")
        /\ Cardinality(LabelsOf("seen")) <= 1
        /\ Cardinality(LabelsOf("time")) = 1
        /\ \A k \in LabelsOf("time") :
              labels[k].y + labels[k].h <= bubbles[Len(bubbles)].box[2]

\* A conversation that starts with A and ends with B has been annotated with
\* both labels.
C6_Witness ==
    /\ lpc = "done"
    /\ Len(messages) >= 2
    /\ messages[1][1] = "sender"
    /\ messages[Len(messages)][1] = "receiver"
    /\ LabelsOf("seen") # {}
    /\ LabelsOf("time") # {}

\* C7: called with an empty message list, generate_chat_image fails fast:
\* it never runs to its end and never saves an image.
C7_EmptyFailsFast ==
    arg_messages = <<"list", <<>> >> => (~saved /\ lpc # "done")

\* C8: nothing is rendered below the bottom anchor: the newest bubble's
\* bottom equals the anchor, every other bubble's bottom is at or above it,
\* and every annotation is drawn at or above it.
C8_NothingBelowAnchor ==
    lpc # "start" =>
        /\ bubbles # <<>> => bubbles[1].box[4] = Anchor
        /\ \A k \in 1..Len(bubbles) : bubbles[k].box[4] <= Anchor
        /\ \A k \in 1..Len(labels) : labels[k].y <= Anchor

\* C8 as amended: the newest bubble's bottom equals the anchor, every other
\* bubble's bottom is at or above it, and the timestamp lies at or above it;
\* the "Seen just now" label, when drawn, is drawn seen_offset below it.
C8_OnlySeenBelowAnchor ==
    lpc # "start" =>
        /\ bubbles # <<>> => bubbles[1].box[4] = Anchor
        /\ \A k \in 1..Len(bubbles) : bubbles[k].box[4] <= Anchor
        /\ \A k \in LabelsOf("time") : labels[k].y + labels[k].h <= Anchor
        /\ \A k \in LabelsOf("seen") : labels[k].y = Anchor + seen_offset

\* Two or more bubbles and both labels have been drawn.
C8_Witness ==
    /\ lpc = "done"
    /\ Len(bubbles) >= 2
    /\ LabelsOf("seen") # {}
    /\ LabelsOf("time") # {}

\* C9: a turn whose text is empty or whitespace-only wraps to no line and is
\* laid out as a one-line-tall bubble: its height is the fallback probe's
\* line height plus 2 * bubble_padding and its width is 2 * bubble_padding.
C9_EmptyTextOneLineTall ==
    \A k \in 1..Len(bubbles) :
        strip(bubbles[k].text) = <<>> =>
            /\ bubbles[k].lines = <<>>
            /\ bubbles[k].box[3] - bubbles[k].box[1] = 2 * bubble_padding
            /\ bubbles[k].box[4] - bubbles[k].box[2] =
                  bubbles[k].line_height + 2 * bubble_padding

\* C10: every wrapped line is drawn inside its bubble's box: the y at which
\* it is drawn plus its own measured height never exceeds bubble_bottom.
C10_TextInsideBubble ==
    \A k \in 1..Len(text_draws) :
        text_draws[k].y + text_draws[k].h <= bubbles[text_draws[k].bubble].box[4]

====
